---- MODULE Spec2Model ----
(***************************************************************************)
(* Record / replay engine of game_test_py (tools/recorder.py) and the      *)
(* desktop shell's stop path (desktop/app.py).                             *)
(*                                                                         *)
(* Threads of a capture session, as the code creates them:                 *)
(*   - the thread that calls ActionRecorder.record() (clear, start         *)
(*     instant, start listeners, poll the stop flag, stop listeners,       *)
(*     snapshot, return);                                                  *)
(*   - the keyboard listener thread, which runs _on_key_press and          *)
(*     _on_key_release one callback at a time;                             *)
(*   - the mouse listener thread, which runs _on_move, _on_click and       *)
(*     _on_scroll one callback at a time;                                  *)
(*   - any other thread, which may call request_stop().                    *)
(* A thread switch can fall between any two statements, so every handler   *)
(* is split at its reads and writes of shared state: the focus query, the  *)
(* clock read of _now_delta(), the list append, the flag set.              *)
(*                                                                         *)
(* Listener.stop() is a request: record() never joins the listener         *)
(* threads, so a callback that had begun when stop() was called still      *)
(* runs to its end.  The model lets no NEW callback begin after stop().    *)
(*                                                                         *)
(* Strings that the code inspects character by character (key names) are   *)
(* sequences of one-character strings.  Clock values are integer ticks.    *)
(*                                                                         *)
(* A replay is the ActionReplayer.replay() call, made by cli.main or by    *)
(* the shell's replay worker: read the file, load the records, then wait   *)
(* and dispatch record by record.  The recording file is a sequence of     *)
(* JSON tokens, written by json.dumps and read by json.loads.              *)
(***************************************************************************)
EXTENDS Integers, Sequences, FiniteSets, TLC

\* ------------------------------------------------------------------ bounds
\* Largest clock value the environment's clock reaches.
MaxClock == 2
\* Largest length of the event sequence.
MaxEvents == 2
\* Largest number of record() calls on one recorder.
MaxSessions == 2

\* Largest number of records in a replayed file.
MaxReplayLen == 2
\* Largest dt of a record in a replayed file.
MaxDt == 2
\* Largest virtual key code of a key without character.
MaxVk == 2

\* -------------------------------------------------------------- constants
\* One clock tick is 10 ms: the 0.01 s cap of _sleep_until's time.sleep.
SleepCap == 1
\* self._start_ts before the first record(): None.
NoTs == -1

\* KeyCode.char of a key without character (None): no characters.
NoChar == <<>>
\* KeyCode.vk of a key made by KeyCode.from_char: None.
NoVk == -1

None == "None"
TargetWin == "hwnd_7"
OtherWin == "hwnd_9"
Windows == {TargetWin, OtherWin}

\* ------------------------------------------------------------------- keys
\* keyboard.Key.esc: a member of the Key enumeration (not a KeyCode).
KeyEsc == [kind |-> "Key", name |-> <<"e", "s", "c">>, char |-> NoChar, vk |-> NoVk]
\* keyboard.KeyCode with char 'a'.
KeyA == [kind |-> "KeyCode", name |-> <<>>, char |-> <<"a">>, vk |-> NoVk]
Keys == {KeyEsc, KeyA}

DecimalChars == <<"0", "1", "2", "3", "4", "5", "6", "7", "8", "9">>

\* '%d' % vk
RECURSIVE Decimal(_)
Decimal(n) ==
    IF n < 10 THEN <<DecimalChars[n + 1]>>
    ELSE Decimal(n \div 10) \o <<DecimalChars[(n % 10) + 1]>>

\* str(key) of pynput: "Key.<name>" for a member of Key; for a KeyCode the
\* repr of its character, or "<vk>" when it has none.
StrOfKey(key) ==
    IF key.kind = "Key" THEN <<"K", "e", "y", ".">> \o key.name
    ELSE IF key.char # NoChar THEN <<"'">> \o key.char \o <<"'">>
    ELSE <<"<">> \o Decimal(key.vk) \o <<">">>

\* _key_to_str
KeyToStr(key) ==
    IF key.kind = "KeyCode" /\ key.char # NoChar THEN key.char ELSE StrOfKey(key)

\* The literal "Key.esc" of _on_key_release.
EscName == <<"K", "e", "y", ".", "e", "s", "c">>

\* RecordedEvent(t, dt, data)
RecordedEvent(t, dt, data) == [t |-> t, dt |-> dt, data |-> data]

\* dataclasses.asdict(e): the dict of the record's fields, by name.
AsDict(e) == [t |-> e.t, dt |-> e.dt, data |-> e.data]

\* The payloads the input source delivers to the mouse handlers.
MouseData(t) ==
    CASE t = "mouse_move" -> [x |-> 10, y |-> 20]
      [] t = "mouse_click" -> [x |-> 10, y |-> 20, button |-> "left", pressed |-> TRUE]
      [] t = "mouse_scroll" -> [x |-> 10, y |-> 20, dx |-> 0, dy |-> 1]

VARIABLES
    \* ActionRecorder fields
    events,         \* self._events
    start_ts,       \* self._start_ts
    target_hwnd,    \* self._target_hwnd
    stop_event,     \* self._stop_event.is_set()
    kb_listener,    \* state of the keyboard listener: "none", "running", "stopped"
    ms_listener,    \* state of the mouse listener
    \* the record() call
    recPc,          \* position of the calling thread in record()
    payload,        \* the local payload of record(): what the call returns
    sessions,       \* record() calls begun so far
    \* listener threads
    kb,             \* the keyboard listener thread's current callback
    ms,             \* the mouse listener thread's current callback
    \* environment
    now,            \* time.perf_counter()
    fg,             \* the foreground window
    win32gui,       \* whether the win32gui module was imported
    \* history
    fgMatched,      \* the foreground window was the target at some filtered event
    queryFailed,    \* GetForegroundWindow raised at some event
    dropped,        \* the filter dropped some event of this session
    raisedNow,      \* GetForegroundWindow raised at the latest focus query, until
                    \* a handler next reads the clock
    stopSinceCall,  \* a stop (ESC release or request_stop) happened since record() began
    \* ActionReplayer.replay
    raw,            \* json.loads of the input file
    rp,             \* the replay call: position, events, index, start, remaining
    emitted,        \* the synthetic input actions emitted, with the clock at each
    turn,           \* history: the clock when the current event's turn came, its sleeps
    \* MainWindow (desktop shell)
    recording,      \* self._recording
    activeRecorder, \* self._active_recorder: "unset" (no attribute), "none", "set"
    start_btn,      \* start_btn.isEnabled()
    stop_btn,       \* stop_btn.isEnabled()
    ui,             \* the UI thread: the slot it is running
    worker,         \* the recording worker thread's position
    uiQueue,        \* queued invocations posted to the UI thread
    synth,          \* synthetic key actions on_stop emitted
    kbInbox,        \* synthetic key events on their way to the keyboard listener
    replayThread,   \* self._replay_thread: "none", or the replay worker's position
    play_btn,       \* play_btn.isEnabled()
    minimized,      \* the main window is minimized
    playWarned,     \* history: on_play showed the "file does not exist" warning
    \* file system
    recording_file, \* the recording file: whether it exists, and its text
    \* key names
    codec           \* a key on its way through _key_to_str and _str_to_key

vars == <<events, start_ts, target_hwnd, stop_event, kb_listener, ms_listener,
          recPc, payload, sessions, kb, ms, now, fg, win32gui,
          fgMatched, queryFailed, dropped, raisedNow, stopSinceCall,
          raw, rp, emitted, turn,
          recording, activeRecorder, start_btn, stop_btn, ui, worker, uiQueue,
          synth, kbInbox, replayThread, play_btn, minimized, playWarned, recording_file,
          codec>>

recorderFields == <<events, start_ts, target_hwnd, stop_event, kb_listener, ms_listener>>
callVars == <<recPc, payload, sessions>>
envVars == <<now, fg, win32gui>>
histVars == <<fgMatched, queryFailed, dropped, raisedNow, stopSinceCall>>
recorderVars == <<recorderFields, callVars, kb, ms, fg, win32gui, histVars>>
replayVars == <<raw, rp, emitted, turn>>
playVars == <<replayThread, play_btn, minimized, playWarned, recording_file>>
shellVars == <<recording, activeRecorder, start_btn, stop_btn, ui, worker, uiQueue,
               synth, kbInbox, playVars>>

KbIdle == [pc |-> "idle", t |-> "", key |-> KeyA, dt |-> 0, consulted |-> FALSE]
MsIdle == [pc |-> "idle", t |-> "", dt |-> 0]

\* ------------------------------------------------------------------- Init
\* ActionRecorder.__init__(target_hwnd): with or without a target window.
InitRecorder ==
    /\ events = <<>>
    /\ start_ts = NoTs
    /\ target_hwnd \in {None, TargetWin}
    /\ stop_event = FALSE
    /\ kb_listener = "none"
    /\ ms_listener = "none"
    /\ recPc = "idle"
    /\ payload = <<>>
    /\ sessions = 0
    /\ kb = KbIdle
    /\ ms = MsIdle
    /\ now = 0
    /\ fg \in Windows
    /\ win32gui \in BOOLEAN
    /\ fgMatched = FALSE
    /\ queryFailed = FALSE
    /\ dropped = FALSE
    /\ raisedNow = FALSE
    /\ stopSinceCall = FALSE

RpIdle == [pc |-> "idle", events |-> <<>>, idx |-> 0, start |-> 0, remaining |-> 0]
NoTurn == [at |-> 0, sleeps |-> 0]

UiIdle == [pc |-> "idle", sawNone |-> FALSE, synth0 |-> 0]

\* No recording file.
NoFile == [exists |-> FALSE, text |-> <<>>]

\* MainWindow.__init__: no recording, no _active_recorder attribute yet, no
\* replay thread.
InitWindow ==
    /\ recording = FALSE
    /\ activeRecorder = "unset"
    /\ start_btn = TRUE
    /\ stop_btn = FALSE
    /\ ui = UiIdle
    /\ worker = "none"
    /\ uiQueue = <<>>
    /\ synth = <<>>
    /\ kbInbox = <<>>
    /\ replayThread = "none"
    /\ play_btn = TRUE
    /\ minimized = FALSE
    /\ playWarned = FALSE

InitShellState == InitWindow /\ recording_file = NoFile

CodecIdle == [pc |-> "idle", key |-> KeyA, name |-> <<>>, back |-> KeyA]

\* No key on its way through the key-name functions.
InitNoCodec == codec = CodecIdle

\* No replay in progress.
InitNoReplay ==
    /\ raw = <<>>
    /\ rp = RpIdle
    /\ emitted = <<>>
    /\ turn = NoTurn

\* ------------------------------------------------------------ environment
\* The monotonic clock advances.
Tick ==
    /\ now < MaxClock
    /\ now' = now + 1
    /\ UNCHANGED <<recorderFields, callVars, kb, ms, fg, win32gui, histVars,
                   replayVars, shellVars, codec>>

\* The foreground window changes.
FocusChange ==
    /\ \E w \in Windows \ {fg} : fg' = w
    /\ UNCHANGED <<recorderFields, callVars, kb, ms, now, win32gui, histVars,
                   replayVars, shellVars, codec>>

\* ------------------------------------------------------------- the record() call
\* record(): self._events.clear(), the first statement of a call.
RecordClear ==
    /\ recPc = "idle"
    /\ events' = <<>>
    /\ recPc' = "set_start"
    /\ sessions' = sessions + 1
    /\ fgMatched' = FALSE
    /\ queryFailed' = FALSE
    /\ dropped' = FALSE
    /\ raisedNow' = FALSE
    /\ stopSinceCall' = FALSE
    /\ payload' = <<>>
    /\ UNCHANGED <<start_ts, target_hwnd, stop_event, kb_listener, ms_listener,
                   kb, ms, envVars, replayVars, codec>>

\* The first record() on a recorder.
CallRecord ==
    /\ sessions = 0
    /\ RecordClear
    /\ UNCHANGED shellVars

\* A later record() on the same recorder, begun once the callbacks of the
\* earlier session have run out.
CallRecordAgain ==
    /\ sessions > 0
    /\ sessions < MaxSessions
    /\ kb.pc = "idle" /\ ms.pc = "idle"
    /\ RecordClear
    /\ UNCHANGED shellVars

\* record(): self._start_ts = time.perf_counter(); the two listeners are built.
RecordSetStart ==
    /\ recPc = "set_start"
    /\ start_ts' = now
    /\ kb_listener' = "none"
    /\ ms_listener' = "none"
    /\ recPc' = "start_kb"
    /\ UNCHANGED <<events, target_hwnd, stop_event, payload, sessions, kb, ms,
                   envVars, histVars,
                   replayVars, shellVars, codec>>

\* record(): kb_listener.start()
RecordStartKb ==
    /\ recPc = "start_kb"
    /\ kb_listener' = "running"
    /\ recPc' = "start_ms"
    /\ UNCHANGED <<events, start_ts, target_hwnd, stop_event, ms_listener, payload,
                   sessions, kb, ms, envVars, histVars,
                   replayVars, shellVars, codec>>

\* record(): ms_listener.start()
RecordStartMs ==
    /\ recPc = "start_ms"
    /\ ms_listener' = "running"
    /\ recPc' = "poll"
    /\ UNCHANGED <<events, start_ts, target_hwnd, stop_event, kb_listener, payload,
                   sessions, kb, ms, envVars, histVars,
                   replayVars, shellVars, codec>>

\* The loop test of record(): while not self._stop_event.is_set().
\* The position after the test: the finally block when the flag is set, the
\* loop body (time.sleep(0.05), then the test again) when it is unset.
\* Variant: the loop test inverted.
AfterPollTest_Inverted(flag) == IF flag THEN "poll" ELSE "stop_kb"

AfterPollTest(flag) == IF flag THEN "stop_kb" ELSE "poll"

RecordPoll ==
    /\ recPc = "poll"
    /\ recPc' = AfterPollTest(stop_event)
    /\ UNCHANGED <<recorderFields, payload, sessions, kb, ms, envVars, histVars,
                   replayVars, shellVars, codec>>

\* record(): kb_listener.stop() in the finally block (no join).
RecordStopKb ==
    /\ recPc = "stop_kb"
    /\ kb_listener' = "stopped"
    /\ recPc' = "stop_ms"
    /\ UNCHANGED <<events, start_ts, target_hwnd, stop_event, ms_listener, payload,
                   sessions, kb, ms, envVars, histVars,
                   replayVars, shellVars, codec>>

\* record(): ms_listener.stop() in the finally block (no join).
RecordStopMs ==
    /\ recPc = "stop_ms"
    /\ ms_listener' = "stopped"
    /\ recPc' = "snapshot"
    /\ UNCHANGED <<events, start_ts, target_hwnd, stop_event, kb_listener, payload,
                   sessions, kb, ms, envVars, histVars,
                   replayVars, shellVars, codec>>

\* record(): payload = [asdict(e) for e in self._events]; return payload.
Snapshot(evs) == [i \in 1..Len(evs) |-> AsDict(evs[i])]

RecordReturn ==
    /\ recPc = "snapshot"
    /\ payload' = Snapshot(events)
    /\ recPc' = "idle"
    /\ UNCHANGED <<recorderFields, sessions, kb, ms, envVars, histVars,
                   replayVars, shellVars, codec>>

\* record(): kb_listener.start() raises.  The call is outside the try block:
\* the error goes to the caller at once.
RecordStartKbFails ==
    /\ recPc = "start_kb"
    /\ recPc' = "attach_failed"
    /\ UNCHANGED <<recorderFields, payload, sessions, kb, ms, envVars, histVars,
                   replayVars, shellVars, codec>>

\* record(): ms_listener.start() raises, after kb_listener.start() returned.
\* The call is outside the try block: no finally clause stops the keyboard
\* listener.
RecordStartMsFails ==
    /\ recPc = "start_ms"
    /\ recPc' = "attach_failed"
    /\ UNCHANGED <<recorderFields, payload, sessions, kb, ms, envVars, histVars,
                   replayVars, shellVars, codec>>

\* The position after an exception raised inside the try block of record()
\* (by time.sleep, e.g. KeyboardInterrupt): the finally block.
\* Variant: the exception leaves record() without the finally block.
AfterWaitRaises_NoFinally == "interrupted"

AfterWaitRaises == "exc_stop_kb"

\* record(): an exception is raised while the call waits for the stop flag.
RecordInterrupt ==
    /\ recPc = "poll"
    /\ recPc' = AfterWaitRaises
    /\ UNCHANGED <<recorderFields, payload, sessions, kb, ms, envVars, histVars,
                   replayVars, shellVars, codec>>

\* record(): kb_listener.stop() in the finally block, the exception pending.
RecordExcStopKb ==
    /\ recPc = "exc_stop_kb"
    /\ kb_listener' = "stopped"
    /\ recPc' = "exc_stop_ms"
    /\ UNCHANGED <<events, start_ts, target_hwnd, stop_event, ms_listener, payload,
                   sessions, kb, ms, envVars, histVars,
                   replayVars, shellVars, codec>>

\* record(): ms_listener.stop() in the finally block; the exception then
\* goes to the caller.
RecordExcStopMs ==
    /\ recPc = "exc_stop_ms"
    /\ ms_listener' = "stopped"
    /\ recPc' = "interrupted"
    /\ UNCHANGED <<events, start_ts, target_hwnd, stop_event, kb_listener, payload,
                   sessions, kb, ms, envVars, histVars,
                   replayVars, shellVars, codec>>

\* Variant: a request_stop() that records an esc key_release of its own, as
\* the ESC handler does.
RequestStop_AppendsEsc ==
    /\ Len(events) < MaxEvents
    /\ events' = Append(events, RecordedEvent("key_release", now - start_ts,
                                              [key |-> EscName]))
    /\ stop_event' = TRUE
    /\ stopSinceCall' = TRUE
    /\ UNCHANGED <<start_ts, target_hwnd, kb_listener, ms_listener, callVars,
                   kb, ms, envVars, fgMatched, queryFailed, dropped, raisedNow,
                   replayVars, shellVars, codec>>

\* request_stop(), from any thread, at any time.
RequestStop ==
    /\ stop_event' = TRUE
    /\ stopSinceCall' = TRUE
    /\ UNCHANGED <<events, start_ts, target_hwnd, kb_listener, ms_listener, callVars,
                   kb, ms, envVars, fgMatched, queryFailed, dropped, raisedNow,
                   replayVars, shellVars, codec>>

\* ------------------------------------------------------- the focus filter
\* Variant: the filter without the comparison of the foreground window.
AcceptEvent_NoCompare(target, haveWin32, fgNow, raised) == TRUE

\* Variant: a failed focus query drops the event.
AcceptEvent_FailClosed(target, haveWin32, fgNow, raised) ==
    IF target = None \/ ~haveWin32 THEN TRUE
    ELSE IF raised THEN FALSE
    ELSE fgNow = target

\* _accept_event: the outcome, given whether GetForegroundWindow raised.
AcceptEvent(target, haveWin32, fgNow, raised) ==
    IF target = None \/ ~haveWin32 THEN TRUE
    ELSE IF raised THEN TRUE
    ELSE fgNow = target

\* Whether _accept_event reaches the GetForegroundWindow call at all.
QueriesFocus(target, haveWin32) == ~(target = None \/ ~haveWin32)

\* ------------------------------------------------- keyboard listener thread
\* Bound of the model: a callback begins only while the sequence, with the
\* appends still to come from callbacks under way, is below MaxEvents.
Pending(pc) == IF pc \in {"accept", "now", "append", "esc_now", "esc_append"} THEN 1 ELSE 0
Room == Len(events) + Pending(kb.pc) + Pending(ms.pc) < MaxEvents

\* The first position of _on_key_release: the ESC branch, which does not call
\* _accept_event, or the filtered path.
\* Variant: the ESC release filtered like any other key release.
KeyReleaseEntry_Filtered(key) == "accept"

KeyReleaseEntry(key) == IF KeyToStr(key) = EscName THEN "esc_now" ELSE "accept"

\* The listener thread calls _on_key_press(key).
OnKeyPress ==
    /\ kb_listener = "running"
    /\ kb.pc = "idle"
    /\ Room
    /\ \E key \in Keys :
         kb' = [pc |-> "accept", t |-> "key_press", key |-> key, dt |-> 0,
                consulted |-> FALSE]
    /\ UNCHANGED <<recorderFields, callVars, ms, envVars, histVars,
                   replayVars, shellVars, codec>>

\* The listener thread calls _on_key_release(key).
OnKeyRelease ==
    /\ kb_listener = "running"
    /\ kb.pc = "idle"
    /\ Room
    /\ \E key \in Keys :
         kb' = [pc |-> KeyReleaseEntry(key), t |-> "key_release", key |-> key,
                dt |-> 0, consulted |-> FALSE]
    /\ UNCHANGED <<recorderFields, callVars, ms, envVars, histVars,
                   replayVars, shellVars, codec>>

\* if not self._accept_event(): return
KbAccept ==
    /\ kb.pc = "accept"
    /\ \E raised \in BOOLEAN :
         /\ raised => QueriesFocus(target_hwnd, win32gui)
         /\ kb' = IF AcceptEvent(target_hwnd, win32gui, fg, raised)
                  THEN [kb EXCEPT !.pc = "now", !.consulted = TRUE]
                  ELSE KbIdle
         /\ queryFailed' = (queryFailed \/ raised)
         /\ raisedNow' = raised
         /\ dropped' = (dropped \/ ~AcceptEvent(target_hwnd, win32gui, fg, raised))
    /\ fgMatched' = (fgMatched \/ fg = target_hwnd)
    /\ UNCHANGED <<recorderFields, callVars, ms, envVars, stopSinceCall,
                   replayVars, shellVars, codec>>

\* dt=self._now_delta(), evaluated before the append it is an argument of.
NowDelta == now - start_ts

KbNow ==
    /\ kb.pc \in {"now", "esc_now"}
    /\ kb' = [kb EXCEPT !.pc = IF kb.pc = "now" THEN "append" ELSE "esc_append",
                        !.dt = NowDelta]
    /\ raisedNow' = FALSE
    /\ UNCHANGED <<recorderFields, callVars, ms, envVars, fgMatched, queryFailed,
                   dropped, stopSinceCall, replayVars, shellVars, codec>>

\* self._events.append(RecordedEvent(t, dt, {"key": _key_to_str(key)}))
KbAppend ==
    /\ kb.pc \in {"append", "esc_append"}
    /\ events' = Append(events, RecordedEvent(kb.t, kb.dt, [key |-> KeyToStr(kb.key)]))
    /\ kb' = IF kb.pc = "append" THEN KbIdle ELSE [kb EXCEPT !.pc = "esc_set"]
    /\ UNCHANGED <<start_ts, target_hwnd, stop_event, kb_listener, ms_listener,
                   callVars, ms, envVars, histVars,
                   replayVars, shellVars, codec>>

\* self._stop_event.set(); return
KbEscSet ==
    /\ kb.pc = "esc_set"
    /\ stop_event' = TRUE
    /\ stopSinceCall' = TRUE
    /\ kb' = KbIdle
    /\ UNCHANGED <<events, start_ts, target_hwnd, kb_listener, ms_listener, callVars,
                   ms, envVars, fgMatched, queryFailed, dropped, raisedNow,
                   replayVars, shellVars, codec>>

\* ---------------------------------------------------- mouse listener thread
MsBegin(t) ==
    /\ ms_listener = "running"
    /\ ms.pc = "idle"
    /\ Room
    /\ ms' = [pc |-> "accept", t |-> t, dt |-> 0]
    /\ UNCHANGED <<recorderFields, callVars, kb, envVars, histVars,
                   replayVars, shellVars, codec>>

\* The listener thread calls _on_move(x, y).
OnMove == MsBegin("mouse_move")

\* The listener thread calls _on_click(x, y, button, pressed).
OnClick == MsBegin("mouse_click")

\* The listener thread calls _on_scroll(x, y, dx, dy).
OnScroll == MsBegin("mouse_scroll")

\* if not self._accept_event(): return
MsAccept ==
    /\ ms.pc = "accept"
    /\ \E raised \in BOOLEAN :
         /\ raised => QueriesFocus(target_hwnd, win32gui)
         /\ ms' = IF AcceptEvent(target_hwnd, win32gui, fg, raised)
                  THEN [ms EXCEPT !.pc = "now"]
                  ELSE MsIdle
         /\ queryFailed' = (queryFailed \/ raised)
         /\ raisedNow' = raised
         /\ dropped' = (dropped \/ ~AcceptEvent(target_hwnd, win32gui, fg, raised))
    /\ fgMatched' = (fgMatched \/ fg = target_hwnd)
    /\ UNCHANGED <<recorderFields, callVars, kb, envVars, stopSinceCall,
                   replayVars, shellVars, codec>>

MsNow ==
    /\ ms.pc = "now"
    /\ ms' = [ms EXCEPT !.pc = "append", !.dt = NowDelta]
    /\ raisedNow' = FALSE
    /\ UNCHANGED <<recorderFields, callVars, kb, envVars, fgMatched, queryFailed,
                   dropped, stopSinceCall, replayVars, shellVars, codec>>

\* self._events.append(RecordedEvent(t, dt, data))
MsAppend ==
    /\ ms.pc = "append"
    /\ events' = Append(events, RecordedEvent(ms.t, ms.dt, MouseData(ms.t)))
    /\ ms' = MsIdle
    /\ UNCHANGED <<start_ts, target_hwnd, stop_event, kb_listener, ms_listener,
                   callVars, kb, envVars, histVars,
                   replayVars, shellVars, codec>>

\* ------------------------------------------------------- the recording file
\* The text of a recording file is a sequence of JSON tokens (the white space
\* of indent=2 left out).  A token is [k, v]: k the kind of token, v the
\* characters of a number or of a string literal between its quotes.  A
\* string the code inspects character by character (a key name) is a
\* sequence of characters; any other string (an event kind, a button name, a
\* field name) is an atom, and its text is one chunk.
Tok(k) == [k |-> k, v |-> <<>>]

\* Variant: the sign of a number left out.
IntText_NoSign(n) == IF n < 0 THEN Decimal(0 - n) ELSE Decimal(n)

\* json.dumps of an int: int.__repr__
IntText(n) == IF n < 0 THEN <<"-">> \o Decimal(0 - n) ELSE Decimal(n)

\* json.dumps of a float: float.__repr__, which keeps a fraction part (the
\* dt of the model is a whole number of ticks).
FloatText(n) == IntText(n) \o <<".", "0">>

\* json.dumps of a str with ensure_ascii=False: the quote and the backslash
\* are escaped by a backslash.
RECURSIVE Escape(_)
Escape(chars) ==
    IF chars = <<>> THEN <<>>
    ELSE (IF Head(chars) \in {"\"", "\\"} THEN <<"\\", Head(chars)>> ELSE <<Head(chars)>>)
             \o Escape(Tail(chars))

\* The order of the fields in the dicts record() builds.
FieldOrder == <<"t", "dt", "data", "key", "x", "y", "button", "pressed", "dx", "dy">>
IsField(d, f) == f \in DOMAIN d
FieldsOf(d) == SelectSeq(FieldOrder, LAMBDA f : IsField(d, f))

StrTok(chars) == [k |-> "str", v |-> Escape(chars)]

\* json.dumps of a dict, a member at a time.  The encoder chooses by the
\* Python type of the value; the recorder gives each field one type.
RECURSIVE DumpMembers(_, _)
DumpValue(f, val) ==
    CASE f \in {"t", "button"} -> <<StrTok(<<val>>)>>
      [] f = "key" -> <<StrTok(val)>>
      [] f = "dt" -> <<[k |-> "num", v |-> FloatText(val)]>>
      [] f \in {"x", "y", "dx", "dy"} -> <<[k |-> "num", v |-> IntText(val)]>>
      [] f = "pressed" -> <<Tok(IF val THEN "true" ELSE "false")>>
      [] f = "data" -> <<Tok("{")>> \o DumpMembers(val, FieldsOf(val)) \o <<Tok("}")>>
DumpMembers(d, fs) ==
    IF fs = <<>> THEN <<>>
    ELSE <<StrTok(<<Head(fs)>>), Tok(":")>> \o DumpValue(Head(fs), d[Head(fs)])
             \o (IF Len(fs) > 1 THEN <<Tok(",")>> ELSE <<>>)
             \o DumpMembers(d, Tail(fs))

DumpObject(d) == <<Tok("{")>> \o DumpMembers(d, FieldsOf(d)) \o <<Tok("}")>>

RECURSIVE DumpElements(_)
DumpElements(list) ==
    IF list = <<>> THEN <<>>
    ELSE DumpObject(Head(list)) \o (IF Len(list) > 1 THEN <<Tok(",")>> ELSE <<>>)
             \o DumpElements(Tail(list))

\* json.dumps(payload, ensure_ascii=False, indent=2)
JsonDumps(list) == <<Tok("[")>> \o DumpElements(list) \o <<Tok("]")>>

\* json.loads, a number: int(text) without a fraction part, float(text) with
\* one.
DigitValue(c) == CHOOSE d \in 0..9 : DecimalChars[d + 1] = c

RECURSIVE NatValue(_)
NatValue(ds) ==
    IF Len(ds) = 1 THEN DigitValue(ds[1])
    ELSE 10 * NatValue(SubSeq(ds, 1, Len(ds) - 1)) + DigitValue(ds[Len(ds)])

RECURSIVE IntPart(_)
IntPart(chars) ==
    IF chars = <<>> \/ Head(chars) = "." THEN <<>>
    ELSE <<Head(chars)>> \o IntPart(Tail(chars))

NumValue(chars) ==
    IF Head(chars) = "-" THEN 0 - NatValue(Tail(IntPart(chars)))
    ELSE NatValue(IntPart(chars))

\* json.loads, a string literal: a backslash stands for the character after it.
RECURSIVE Unescape(_)
Unescape(chars) ==
    IF chars = <<>> THEN <<>>
    ELSE IF Head(chars) = "\\" THEN <<chars[2]>> \o Unescape(SubSeq(chars, 3, Len(chars)))
    ELSE <<Head(chars)>> \o Unescape(Tail(chars))

\* The str a literal stands for: a sequence of characters for a key name, an
\* atom for any other string.
StrValue(f, chars) == IF f = "key" THEN chars ELSE chars[1]

\* json.loads: one value, with the tokens that follow it.  f is the name of
\* the member the value belongs to.
RECURSIVE ParseValue(_, _)
RECURSIVE ParseMembers(_, _)
ParseValue(f, toks) ==
    CASE Head(toks).k = "str" ->
            [val |-> StrValue(f, Unescape(Head(toks).v)), rest |-> Tail(toks)]
      [] Head(toks).k = "num" -> [val |-> NumValue(Head(toks).v), rest |-> Tail(toks)]
      [] Head(toks).k = "true" -> [val |-> TRUE, rest |-> Tail(toks)]
      [] Head(toks).k = "false" -> [val |-> FALSE, rest |-> Tail(toks)]
      [] Head(toks).k = "{" -> ParseMembers(<<>>, Tail(toks))

\* json.loads: the members of an object, up to its closing brace, added to
\* the dict built so far.
ParseMembers(dict, toks) ==
    IF Head(toks).k = "}" THEN [val |-> dict, rest |-> Tail(toks)]
    ELSE IF Head(toks).k = "," THEN ParseMembers(dict, Tail(toks))
    ELSE LET name == StrValue("", Unescape(Head(toks).v))
             pv == ParseValue(name, SubSeq(toks, 3, Len(toks)))
         IN  ParseMembers(dict @@ (name :> pv.val), pv.rest)

\* json.loads: the elements of an array, up to its closing bracket.
RECURSIVE ParseElements(_)
ParseElements(toks) ==
    IF Head(toks).k = "]" THEN <<>>
    ELSE IF Head(toks).k = "," THEN ParseElements(Tail(toks))
    ELSE LET pv == ParseValue("", toks)
         IN  <<pv.val>> \o ParseElements(pv.rest)

\* json.loads(text)
JsonLoads(text) == ParseElements(Tail(text))

\* ------------------------------------------------------------------ replay
Min(a, b) == IF a <= b THEN a ELSE b

\* Names of the members of keyboard.Key the model knows.
KeyNames == {<<"e", "s", "c">>, <<"s", "h", "i", "f", "t">>,
             <<"c", "t", "r", "l", "_", "l">>}
\* Names of the members of mouse.Button.
ButtonNames == {"left", "right", "middle"}

KeyDot == <<"K", "e", "y", ".">>
StartsWithKeyDot(s) == Len(s) >= 4 /\ SubSeq(s, 1, 4) = KeyDot

\* _str_to_key: whether getattr(keyboard.Key, name) raises.
StrToKeyRaises(s) == StartsWithKeyDot(s) /\ SubSeq(s, 5, Len(s)) \notin KeyNames

\* _str_to_key
StrToKey(s) ==
    IF StartsWithKeyDot(s)
    THEN [kind |-> "Key", name |-> SubSeq(s, 5, Len(s)), char |-> NoChar, vk |-> NoVk]
    ELSE [kind |-> "KeyCode", name |-> <<>>, char |-> s, vk |-> NoVk]

\* RecordedEvent(**e) raises unless e has exactly the fields t, dt, data.
ConstructRaises(e) == DOMAIN e # {"t", "dt", "data"}

\* Variant: the button of every mouse_click validated at load.
LoadRaises_ValidatesButton(file) ==
    \E i \in 1..Len(file) :
        \/ ConstructRaises(file[i])
        \/ /\ ~ConstructRaises(file[i])
           /\ file[i].t = "mouse_click"
           /\ "button" \notin DOMAIN file[i].data

\* events = [RecordedEvent(**e) for e in raw]
LoadRaises(file) == \E i \in 1..Len(file) : ConstructRaises(file[i])
LoadEvents(file) == [i \in 1..Len(file) |-> RecordedEvent(file[i].t, file[i].dt, file[i].data)]

Has(d, f) == f \in DOMAIN d

\* _dispatch: whether it raises before emitting (a missing payload field, an
\* unknown key or button name).
DispatchRaises(ev) ==
    CASE ev.t \in {"key_press", "key_release"} ->
            ~Has(ev.data, "key") \/ StrToKeyRaises(ev.data.key)
      [] ev.t = "mouse_move" -> ~Has(ev.data, "x") \/ ~Has(ev.data, "y")
      [] ev.t = "mouse_click" ->
            \/ ~Has(ev.data, "button")
            \/ ev.data.button \notin ButtonNames
            \/ ~Has(ev.data, "pressed")
      [] ev.t = "mouse_scroll" -> ~Has(ev.data, "dx") \/ ~Has(ev.data, "dy")
      [] OTHER -> FALSE

\* Variant: the pressed flag ignored.
ClickAct_AlwaysPress(data) == [op |-> "button_press", button |-> data.button]

\* _dispatch, mouse_click: press or release of the named button.
ClickAct(data) ==
    IF data.pressed
    THEN [op |-> "button_press", button |-> data.button]
    ELSE [op |-> "button_release", button |-> data.button]

\* _dispatch: the synthetic input actions for one event (none for a kind
\* that matches no branch).
DispatchActs(ev) ==
    CASE ev.t = "key_press" -> <<[op |-> "key_press", key |-> StrToKey(ev.data.key)]>>
      [] ev.t = "key_release" -> <<[op |-> "key_release", key |-> StrToKey(ev.data.key)]>>
      [] ev.t = "mouse_move" -> <<[op |-> "set_position", x |-> ev.data.x, y |-> ev.data.y]>>
      [] ev.t = "mouse_click" -> <<ClickAct(ev.data)>>
      [] ev.t = "mouse_scroll" -> <<[op |-> "scroll", dx |-> ev.data.dx, dy |-> ev.data.dy]>>
      [] OTHER -> <<>>

\* record(output_file), as cli.main calls it: payload = [asdict(e) ...];
\* output_file.write_text(json.dumps(payload, ...)); return payload.
RecordReturnToFile ==
    /\ recPc = "snapshot"
    /\ payload' = Snapshot(events)
    /\ recording_file' = [exists |-> TRUE, text |-> JsonDumps(Snapshot(events))]
    /\ recPc' = "idle"
    /\ UNCHANGED <<recorderFields, sessions, kb, ms, envVars, histVars, replayVars,
                   recording, activeRecorder, start_btn, stop_btn, ui, worker, uiQueue,
                   synth, kbInbox, replayThread, play_btn, minimized, playWarned,
                   codec>>

\* replay: input_file.read_text(encoding="utf-8"), which raises when the
\* file does not exist, and json.loads of the text.
ReplayRead ==
    /\ rp.pc = "read"
    /\ IF recording_file.exists
       THEN /\ raw' = JsonLoads(recording_file.text)
            /\ rp' = [rp EXCEPT !.pc = "load"]
       ELSE /\ rp' = [rp EXCEPT !.pc = "failed"]
            /\ UNCHANGED raw
    /\ UNCHANGED <<recorderVars, now, emitted, turn, shellVars,
                   codec>>

\* cli.main, replay: ActionReplayer().replay(args.input).  The model has one
\* replay() call in a behaviour.
CliReplay ==
    /\ rp.pc = "idle"
    /\ replayThread = "none"
    /\ rp' = [rp EXCEPT !.pc = "read"]
    /\ UNCHANGED <<recorderVars, now, raw, emitted, turn, shellVars,
                   codec>>

\* replay: raw = json.loads(...); events = [...]; if not events: return
ReplayLoad ==
    /\ rp.pc = "load"
    /\ rp' = IF LoadRaises(raw) THEN [rp EXCEPT !.pc = "failed"]
             ELSE IF raw = <<>> THEN [rp EXCEPT !.pc = "done"]
             ELSE [rp EXCEPT !.pc = "start", !.events = LoadEvents(raw)]
    /\ UNCHANGED <<recorderVars, now, raw, emitted, turn, shellVars,
                   codec>>

\* replay: start = time.perf_counter(); the loop begins with the first event.
ReplayStart ==
    /\ rp.pc = "start"
    /\ rp' = [rp EXCEPT !.pc = "su_now", !.start = now, !.idx = 1]
    /\ turn' = [at |-> now, sleeps |-> 0]
    /\ UNCHANGED <<recorderVars, now, raw, emitted, shellVars,
                   codec>>

\* replay: target = start + ev.dt
Target == rp.start + rp.events[rp.idx].dt

\* Variant: the wait given up one tick early.
SleepDone_OffByOne(remaining) == remaining <= 1

\* _sleep_until: if remaining <= 0: return
SleepDone(remaining) == remaining <= 0

\* _sleep_until: now = time.perf_counter(); remaining = target_ts - now; test.
SleepUntilTest ==
    /\ rp.pc = "su_now"
    /\ rp' = IF SleepDone(Target - now)
             THEN [rp EXCEPT !.pc = "dispatch"]
             ELSE [rp EXCEPT !.pc = "su_sleep", !.remaining = Target - now]
    /\ UNCHANGED <<recorderVars, now, raw, emitted, turn, shellVars,
                   codec>>

\* _sleep_until: time.sleep(min(remaining, 0.01)), which lasts at least that.
SleepUntilSleep ==
    /\ rp.pc = "su_sleep"
    /\ now' = now + Min(rp.remaining, SleepCap)
    /\ rp' = [rp EXCEPT !.pc = "su_now", !.remaining = 0]
    /\ turn' = [turn EXCEPT !.sleeps = turn.sleeps + 1]
    /\ UNCHANGED <<recorderVars, raw, emitted, shellVars,
                   codec>>

\* The emitted actions, each with the clock at emission and the history of
\* the event's turn.
Stamp(acts) ==
    [i \in 1..Len(acts) |->
        [act |-> acts[i], at |-> now, turnAt |-> turn.at, sleeps |-> turn.sleeps,
         idx |-> rp.idx]]

\* replay: self._dispatch(ev), then the next event or the end of the loop.
ReplayDispatch ==
    /\ rp.pc = "dispatch"
    /\ IF DispatchRaises(rp.events[rp.idx])
       THEN /\ rp' = [rp EXCEPT !.pc = "failed"]
            /\ UNCHANGED <<emitted, turn>>
       ELSE /\ emitted' = emitted \o Stamp(DispatchActs(rp.events[rp.idx]))
            /\ rp' = IF rp.idx = Len(rp.events)
                     THEN [rp EXCEPT !.pc = "done"]
                     ELSE [rp EXCEPT !.pc = "su_now", !.idx = rp.idx + 1]
            /\ turn' = [at |-> now, sleeps |-> 0]
    /\ UNCHANGED <<recorderVars, now, raw, shellVars,
                   codec>>

\* replay: self._dispatch(ev) when the synthetic-input emitter rejects the
\* action: the controller's exception leaves _dispatch and replay(), which
\* have no handler for it.
ReplayDispatchRejected ==
    /\ rp.pc = "dispatch"
    /\ ~DispatchRaises(rp.events[rp.idx])
    /\ DispatchActs(rp.events[rp.idx]) # <<>>
    /\ rp' = [rp EXCEPT !.pc = "rejected"]
    /\ UNCHANGED <<recorderVars, now, raw, emitted, turn, shellVars,
                   codec>>

\* ---------------------------------------------------------------- key names
\* data={"key": _key_to_str(key)}: the name a handler stores for the key.
KeyEncode ==
    /\ codec.pc = "key"
    /\ codec' = [codec EXCEPT !.pc = "name", !.name = KeyToStr(codec.key)]
    /\ UNCHANGED <<recorderVars, now, replayVars, shellVars>>

\* k = _str_to_key(ev.data["key"]): the key _dispatch makes of the name.
KeyDecode ==
    /\ codec.pc = "name"
    /\ codec' = IF StrToKeyRaises(codec.name)
                THEN [codec EXCEPT !.pc = "raised"]
                ELSE [codec EXCEPT !.pc = "back", !.back = StrToKey(codec.name)]
    /\ UNCHANGED <<recorderVars, now, replayVars, shellVars>>

\* ---------------------------------------------------------- desktop shell
\* on_start -> _start_recording: returns when a recording is in progress;
\* otherwise marks the recording, flips the buttons and starts the worker.
OnStart ==
    /\ ui.pc = "idle"
    /\ sessions < MaxSessions
    /\ IF recording
       THEN UNCHANGED <<recording, start_btn, stop_btn, worker>>
       ELSE /\ recording' = TRUE
            /\ start_btn' = FALSE
            /\ stop_btn' = TRUE
            /\ worker' = "create"
    /\ UNCHANGED <<recorderVars, now, replayVars, activeRecorder, ui, uiQueue, synth,
                   kbInbox,
                   playVars, codec>>

\* _worker: self._active_recorder = ActionRecorder(target_hwnd=hwnd).  The
\* worker of a later recording runs once the callbacks of the earlier one
\* have run out.
WorkerCreate ==
    /\ worker = "create"
    /\ kb.pc = "idle" /\ ms.pc = "idle"
    /\ events' = <<>>
    /\ start_ts' = NoTs
    /\ target_hwnd' = TargetWin
    /\ stop_event' = FALSE
    /\ kb_listener' = "none"
    /\ ms_listener' = "none"
    /\ activeRecorder' = "set"
    /\ kbInbox' = <<>>
    /\ worker' = "call"
    /\ UNCHANGED <<callVars, kb, ms, envVars, histVars, replayVars, recording,
                   start_btn, stop_btn, ui, uiQueue, synth,
                   playVars, codec>>

\* _worker: payload = self._active_recorder.record(None), the call.
WorkerCallRecord ==
    /\ worker = "call"
    /\ RecordClear
    /\ worker' = "in_record"
    /\ UNCHANGED <<recording, activeRecorder, start_btn, stop_btn, ui, uiQueue, synth,
                   kbInbox,
                   playVars, codec>>

\* _worker: self.save_payload.emit(payload), once record() has returned.
WorkerEmit ==
    /\ worker = "in_record"
    /\ recPc = "idle"
    /\ uiQueue' = Append(uiQueue, "save_payload")
    /\ worker' = "clear"
    /\ UNCHANGED <<recorderVars, now, replayVars, recording, activeRecorder, start_btn,
                   stop_btn, ui, synth, kbInbox,
                   playVars, codec>>

\* _worker, finally: self._active_recorder = None
WorkerClear ==
    /\ worker = "clear"
    /\ activeRecorder' = "none"
    /\ worker' = "invoke"
    /\ UNCHANGED <<recorderVars, now, replayVars, recording, start_btn, stop_btn, ui,
                   uiQueue, synth, kbInbox,
                   playVars, codec>>

\* _worker, finally: invokeMethod(self, "_recording_finished", QueuedConnection)
WorkerInvoke ==
    /\ worker = "invoke"
    /\ uiQueue' = Append(uiQueue, "_recording_finished")
    /\ worker' = "none"
    /\ UNCHANGED <<recorderVars, now, replayVars, recording, activeRecorder, start_btn,
                   stop_btn, ui, synth, kbInbox,
                   playVars, codec>>

\* _prompt_save_payload, run by the UI thread for the queued signal.
PromptSavePayload ==
    /\ ui.pc = "idle"
    /\ uiQueue # <<>> /\ Head(uiQueue) = "save_payload"
    /\ uiQueue' = Tail(uiQueue)
    /\ UNCHANGED <<recorderVars, now, replayVars, recording, activeRecorder, start_btn,
                   stop_btn, ui, worker, synth, kbInbox,
                   playVars, codec>>

\* _recording_finished, run by the UI thread for the queued invocation.
RecordingFinished ==
    /\ ui.pc = "idle"
    /\ uiQueue # <<>> /\ Head(uiQueue) = "_recording_finished"
    /\ uiQueue' = Tail(uiQueue)
    /\ recording' = FALSE
    /\ start_btn' = TRUE
    /\ stop_btn' = FALSE
    /\ UNCHANGED <<recorderVars, now, replayVars, activeRecorder, ui, worker, synth,
                   kbInbox,
                   playVars, codec>>

\* on_stop: if not self._recording: return; then the stop button is disabled.
\* Bound of the model: on_stop runs while fewer than MaxSessions synthetic
\* key pairs were emitted.
OnStopBegin ==
    /\ ui.pc = "idle"
    /\ Len(synth) < 2 * MaxSessions
    /\ IF ~recording
       THEN UNCHANGED <<stop_btn, ui>>
       ELSE /\ stop_btn' = FALSE
            /\ ui' = [pc |-> "stop_check", sawNone |-> FALSE, synth0 |-> Len(synth)]
    /\ UNCHANGED <<recorderVars, now, replayVars, recording, activeRecorder, start_btn,
                   worker, uiQueue, synth, kbInbox,
                   playVars, codec>>

\* Variant: the fallback taken without trying request_stop().
StopPath_NeverCooperative(ar) == "esc_press"

\* on_stop: if hasattr(self, "_active_recorder") and self._active_recorder is
\* not None -- the cooperative stop, or the fallback.
StopPath(ar) == IF ar = "set" THEN "stop_call" ELSE "esc_press"

OnStopCheck ==
    /\ ui.pc = "stop_check"
    /\ ui' = [ui EXCEPT !.pc = StopPath(activeRecorder),
                        !.sawNone = (activeRecorder # "set")]
    /\ UNCHANGED <<recorderVars, now, replayVars, recording, activeRecorder, start_btn,
                   stop_btn, worker, uiQueue, synth, kbInbox,
                   playVars, codec>>

\* on_stop: self._active_recorder.request_stop(); return -- the attribute is
\* read again; on None the AttributeError is swallowed and the fallback runs.
OnStopCall ==
    /\ ui.pc = "stop_call"
    /\ IF activeRecorder = "set"
       THEN /\ stop_event' = TRUE
            /\ stopSinceCall' = TRUE
            /\ ui' = UiIdle
       ELSE /\ ui' = [ui EXCEPT !.pc = "esc_press", !.sawNone = TRUE]
            /\ UNCHANGED <<stop_event, stopSinceCall>>
    /\ UNCHANGED <<events, start_ts, target_hwnd, kb_listener, ms_listener, callVars,
                   kb, ms, envVars, fgMatched, queryFailed, dropped, raisedNow, replayVars,
                   recording, activeRecorder, start_btn, stop_btn, worker, uiQueue,
                   synth, kbInbox,
                   playVars, codec>>

\* Variant: on_play without the test of the replay thread.
PlayBlocked_Never(thread) == FALSE

\* self._replay_thread.is_alive(): the worker has been started and has not
\* run to its end.
ReplayWorkerAlive(thread) == thread \in {"start", "in_replay", "finally"}

\* on_play: self._replay_thread is not None and self._replay_thread.is_alive()
PlayBlocked(thread) == thread # "none" /\ ReplayWorkerAlive(thread)

\* Variant: on_play without the test of the file's existence.
PlayRefused_Never(f) == FALSE

\* on_play: not p.exists()
PlayRefused(f) == ~f.exists

\* on_play: returns when a replay thread is alive or the file does not
\* exist; otherwise disables the play button, minimizes the window and
\* starts the replay worker.  The model has one replay() call in a behaviour.
OnPlay ==
    /\ ui.pc = "idle"
    /\ rp.pc = "idle" \/ ReplayWorkerAlive(replayThread)
    /\ IF PlayBlocked(replayThread)
       THEN UNCHANGED <<replayThread, play_btn, minimized, playWarned>>
       ELSE IF PlayRefused(recording_file)
       THEN /\ playWarned' = TRUE
            /\ UNCHANGED <<replayThread, play_btn, minimized>>
       ELSE /\ play_btn' = FALSE
            /\ minimized' = TRUE
            /\ replayThread' = "start"
            /\ UNCHANGED playWarned
    /\ UNCHANGED <<recorderVars, now, replayVars, recording, activeRecorder, start_btn,
                   stop_btn, ui, worker, uiQueue, synth, kbInbox, recording_file, codec>>

\* _replay_worker: ActionReplayer().replay(p), the call.
ReplayWorkerCall ==
    /\ replayThread = "start"
    /\ rp.pc = "idle"
    /\ rp' = [rp EXCEPT !.pc = "read"]
    /\ replayThread' = "in_replay"
    /\ UNCHANGED <<recorderVars, now, raw, emitted, turn, recording, activeRecorder,
                   start_btn, stop_btn, ui, worker, uiQueue, synth, kbInbox, play_btn,
                   minimized, playWarned, recording_file, codec>>

\* Variant: _replay_finished posted at the end of the try body instead of in
\* a finally clause, so that a replay() that raised ends the thread after the
\* except clause.
ReplayWorkerAfter_NoFinally ==
    /\ replayThread = "in_replay"
    /\ rp.pc \in {"done", "failed", "rejected"}
    /\ uiQueue' = IF rp.pc = "done" THEN uiQueue ELSE Append(uiQueue, "_replay_failed")
    /\ replayThread' = IF rp.pc = "done" THEN "finally" ELSE "dead"
    /\ UNCHANGED <<recorderVars, now, replayVars, recording, activeRecorder, start_btn,
                   stop_btn, ui, worker, synth, kbInbox, play_btn, minimized,
                   playWarned, recording_file, codec>>

\* _replay_worker: replay() has returned, or it has raised and the except
\* clause posts _replay_failed to the UI thread.
ReplayWorkerAfter ==
    /\ replayThread = "in_replay"
    /\ rp.pc \in {"done", "failed", "rejected"}
    /\ uiQueue' = IF rp.pc = "done" THEN uiQueue ELSE Append(uiQueue, "_replay_failed")
    /\ replayThread' = "finally"
    /\ UNCHANGED <<recorderVars, now, replayVars, recording, activeRecorder, start_btn,
                   stop_btn, ui, worker, synth, kbInbox, play_btn, minimized,
                   playWarned, recording_file, codec>>

\* _replay_worker, finally: invokeMethod(self, "_replay_finished", ...); the
\* thread ends.
ReplayWorkerFinally ==
    /\ replayThread = "finally"
    /\ uiQueue' = Append(uiQueue, "_replay_finished")
    /\ replayThread' = "dead"
    /\ UNCHANGED <<recorderVars, now, replayVars, recording, activeRecorder, start_btn,
                   stop_btn, ui, worker, synth, kbInbox, play_btn, minimized,
                   playWarned, recording_file, codec>>

\* _replay_finished, run by the UI thread for the queued invocation.
ReplayFinished ==
    /\ ui.pc = "idle"
    /\ uiQueue # <<>> /\ Head(uiQueue) = "_replay_finished"
    /\ uiQueue' = Tail(uiQueue)
    /\ play_btn' = TRUE
    /\ minimized' = FALSE
    /\ UNCHANGED <<recorderVars, now, replayVars, recording, activeRecorder, start_btn,
                   stop_btn, ui, worker, synth, kbInbox, replayThread, playWarned,
                   recording_file, codec>>

\* _replay_failed, run by the UI thread for the queued invocation: a message
\* box.
ReplayFailed ==
    /\ ui.pc = "idle"
    /\ uiQueue # <<>> /\ Head(uiQueue) = "_replay_failed"
    /\ uiQueue' = Tail(uiQueue)
    /\ UNCHANGED <<recorderVars, now, replayVars, recording, activeRecorder, start_btn,
                   stop_btn, ui, worker, synth, kbInbox, playVars, codec>>

\* A synthetic key event reaches the keyboard listener when one is running.
Inject(ev) == IF kb_listener = "running" THEN Append(kbInbox, ev) ELSE kbInbox

\* on_stop, fallback: ctrl.press(keyboard.Key.esc)
OnStopEscPress ==
    /\ ui.pc = "esc_press"
    /\ synth' = Append(synth, "press")
    /\ kbInbox' = Inject("press")
    /\ ui' = [ui EXCEPT !.pc = "esc_release"]
    /\ UNCHANGED <<recorderVars, now, replayVars, recording, activeRecorder, start_btn,
                   stop_btn, worker, uiQueue,
                   playVars, codec>>

\* on_stop, fallback: ctrl.release(keyboard.Key.esc)
OnStopEscRelease ==
    /\ ui.pc = "esc_release"
    /\ synth' = Append(synth, "release")
    /\ kbInbox' = Inject("release")
    /\ ui' = UiIdle
    /\ UNCHANGED <<recorderVars, now, replayVars, recording, activeRecorder, start_btn,
                   stop_btn, worker, uiQueue,
                   playVars, codec>>

\* The keyboard listener thread calls _on_key_press / _on_key_release for a
\* synthetic ESC event.
KbDeliverSynth ==
    /\ kb_listener = "running"
    /\ kb.pc = "idle"
    /\ kbInbox # <<>>
    /\ kb' = IF Head(kbInbox) = "press"
             THEN [pc |-> "accept", t |-> "key_press", key |-> KeyEsc, dt |-> 0,
                   consulted |-> FALSE]
             ELSE [pc |-> KeyReleaseEntry(KeyEsc), t |-> "key_release", key |-> KeyEsc,
                   dt |-> 0, consulted |-> FALSE]
    /\ kbInbox' = Tail(kbInbox)
    /\ UNCHANGED <<recorderFields, callVars, ms, envVars, histVars, replayVars,
                   recording, activeRecorder, start_btn, stop_btn, ui, worker, uiQueue,
                   synth,
                   playVars, codec>>

\* ---------------------------------------------------------- specification
RecordSteps ==
    \/ RecordSetStart
    \/ RecordStartKb
    \/ RecordStartMs
    \/ RecordPoll
    \/ RecordStopKb
    \/ RecordStopMs
    \/ RecordReturn

KbSteps ==
    \/ OnKeyPress
    \/ OnKeyRelease
    \/ KbAccept
    \/ KbNow
    \/ KbAppend
    \/ KbEscSet

MsSteps ==
    \/ OnMove
    \/ OnClick
    \/ OnScroll
    \/ MsAccept
    \/ MsNow
    \/ MsAppend

\* One capture session under a focus filter: every recorder configuration,
\* the foreground window changing at any time (the clock stands still).
InitFocus == InitRecorder /\ InitNoReplay /\ InitShellState /\ InitNoCodec

NextFocus ==
    \/ FocusChange
    \/ CallRecord
    \/ RecordSteps
    \/ KbSteps
    \/ MsSteps

SpecFocus == InitFocus /\ [][NextFocus]_vars

\* One capture session with the clock running, no focus filter.
InitTiming ==
    /\ InitRecorder /\ InitNoReplay /\ InitShellState /\ InitNoCodec
    /\ target_hwnd = None /\ fg = OtherWin /\ win32gui

NextTiming ==
    \/ Tick
    \/ CallRecord
    \/ RecordSteps
    \/ KbSteps
    \/ MsSteps

SpecTiming == InitTiming /\ [][NextTiming]_vars

\* Several record() calls on one recorder, with request_stop() from another
\* thread.
InitSessions ==
    /\ InitRecorder /\ InitNoReplay /\ InitShellState /\ InitNoCodec
    /\ target_hwnd = None /\ fg = OtherWin /\ win32gui

NextSessions ==
    \/ CallRecord
    \/ CallRecordAgain
    \/ RequestStop
    \/ RecordSteps
    \/ KbSteps
    \/ MsSteps

SpecSessions == InitSessions /\ [][NextSessions]_vars

SpecSessionsFair == SpecSessions /\ WF_vars(RecordSteps)

\* One record() call in which a listener may fail to start and the wait for
\* the stop flag may be interrupted by an exception.
RecordFaultSteps ==
    \/ RecordStartKbFails
    \/ RecordStartMsFails
    \/ RecordInterrupt
    \/ RecordExcStopKb
    \/ RecordExcStopMs

InitTeardown ==
    /\ InitRecorder /\ InitNoReplay /\ InitShellState /\ InitNoCodec
    /\ target_hwnd = None /\ fg = OtherWin /\ win32gui

NextTeardown ==
    \/ CallRecord
    \/ RequestStop
    \/ RecordSteps
    \/ RecordFaultSteps
    \/ KbSteps
    \/ MsSteps

SpecTeardown == InitTeardown /\ [][NextTeardown]_vars

\* One replay() call on every file of at most MaxReplayLen well-formed
\* records, the clock advancing at any time.
KeyAName == <<"a">>
FileShapes ==
    {[t |-> "key_press", data |-> [key |-> KeyAName]],
     [t |-> "key_release", data |-> [key |-> EscName]],
     [t |-> "mouse_move", data |-> MouseData("mouse_move")],
     [t |-> "mouse_scroll", data |-> MouseData("mouse_scroll")]} \cup
    {[t |-> "mouse_click", data |-> [x |-> 10, y |-> 20, button |-> "left", pressed |-> b]] :
        b \in BOOLEAN}
WellFormedRecords ==
    {[t |-> r.t, dt |-> d, data |-> r.data] : r \in FileShapes, d \in 0..MaxDt}
SeqsUpTo(S, n) == UNION {[1..k -> S] : k \in 0..n}

InitReplay ==
    /\ InitRecorder /\ InitShellState /\ InitNoCodec
    /\ target_hwnd = None /\ fg = OtherWin /\ win32gui
    /\ raw \in SeqsUpTo(WellFormedRecords, MaxReplayLen)
    /\ rp = [RpIdle EXCEPT !.pc = "load"]
    /\ emitted = <<>>
    /\ turn = NoTurn

NextReplay ==
    \/ Tick
    \/ ReplayLoad
    \/ ReplayStart
    \/ SleepUntilTest
    \/ SleepUntilSleep
    \/ ReplayDispatch

SpecReplay == InitReplay /\ [][NextReplay]_vars

\* One replay() call on every file of at most MaxReplayLen records, each
\* well formed, lacking a record field, lacking a payload field of its kind
\* or of an unknown kind; the emitter may reject an action.
EventType == {"key_press", "key_release", "mouse_move", "mouse_click", "mouse_scroll"}

FaultShapes ==
    {[t |-> "key_press", data |-> [key |-> KeyAName]],
     [t |-> "mouse_click", data |-> [x |-> 10, y |-> 20, button |-> "left", pressed |-> TRUE]],
     [t |-> "mouse_scroll", data |-> MouseData("mouse_scroll")],
     [t |-> "key_release", data |-> [x |-> 10]],
     [t |-> "mouse_click", data |-> [x |-> 10, y |-> 20, pressed |-> TRUE]],
     [t |-> "mouse_move", data |-> [x |-> 10]],
     [t |-> "key_hold", data |-> [key |-> KeyAName]]}
FaultRecords ==
    {[t |-> r.t, dt |-> d, data |-> r.data] : r \in FaultShapes, d \in {0, MaxDt}}
        \cup {[t |-> "key_press", data |-> [key |-> KeyAName]],
              [t |-> "key_press", dt |-> 0],
              [dt |-> 0, data |-> [key |-> KeyAName]]}

InitReplayFaults ==
    /\ InitRecorder /\ InitShellState /\ InitNoCodec
    /\ target_hwnd = None /\ fg = OtherWin /\ win32gui
    /\ raw \in SeqsUpTo(FaultRecords, MaxReplayLen)
    /\ rp = [RpIdle EXCEPT !.pc = "load"]
    /\ emitted = <<>>
    /\ turn = NoTurn

NextReplayFaults ==
    \/ ReplayLoad
    \/ ReplayStart
    \/ SleepUntilTest
    \/ SleepUntilSleep
    \/ ReplayDispatch
    \/ ReplayDispatchRejected

SpecReplayFaults == InitReplayFaults /\ [][NextReplayFaults]_vars

\* One key through _key_to_str and _str_to_key: every key the input source
\* can deliver -- a KeyCode with a printable character, a member of Key, a
\* KeyCode that carries a virtual key code and no character.
PrintableChars ==
    {"a", "b", "c", "d", "e", "f", "g", "h", "i", "j", "k", "l", "m", "n", "o", "p",
     "q", "r", "s", "t", "u", "v", "w", "x", "y", "z", "K", "0", "1", "9", "<", ".",
     "'", " "}
CharKeys == {[kind |-> "KeyCode", name |-> <<>>, char |-> <<c>>, vk |-> NoVk] : c \in PrintableChars}
NamedKeys == {[kind |-> "Key", name |-> n, char |-> NoChar, vk |-> NoVk] : n \in KeyNames}
VkKeys == {[kind |-> "KeyCode", name |-> <<>>, char |-> NoChar, vk |-> v] : v \in 0..MaxVk}
DeliveredKeys == CharKeys \cup NamedKeys \cup VkKeys

InitKeys ==
    /\ InitRecorder /\ InitNoReplay /\ InitShellState
    /\ target_hwnd = None /\ fg = OtherWin /\ win32gui
    /\ \E key \in DeliveredKeys : codec = [CodecIdle EXCEPT !.pc = "key", !.key = key]

NextKeys ==
    \/ KeyEncode
    \/ KeyDecode

SpecKeys == InitKeys /\ [][NextKeys]_vars

\* A recording written and read back: a record(output_file) call that has
\* stopped its listeners, with every sequence of at most MaxEvents events
\* the handlers can have appended, writes the file; a replay() call reads
\* and loads it.
RecordableShapes ==
    {[t |-> "key_press", data |-> [key |-> KeyAName]],
     [t |-> "key_press", data |-> [key |-> <<"\"">>]],
     [t |-> "key_press", data |-> [key |-> <<"\\">>]],
     [t |-> "key_release", data |-> [key |-> EscName]],
     [t |-> "mouse_move", data |-> [x |-> -10, y |-> 20]],
     [t |-> "mouse_click", data |-> [x |-> 1920, y |-> 0, button |-> "right", pressed |-> FALSE]],
     [t |-> "mouse_click", data |-> MouseData("mouse_click")],
     [t |-> "mouse_scroll", data |-> [x |-> 10, y |-> 20, dx |-> 0, dy |-> -1]]}
RecordableEvents ==
    {RecordedEvent(r.t, d, r.data) : r \in RecordableShapes, d \in {0, MaxDt, 10 * MaxDt}}

InitRoundTrip ==
    /\ events \in SeqsUpTo(RecordableEvents, MaxEvents)
    /\ start_ts = 0
    /\ target_hwnd = None
    /\ stop_event = TRUE
    /\ kb_listener = "stopped"
    /\ ms_listener = "stopped"
    /\ recPc = "snapshot"
    /\ payload = <<>>
    /\ sessions = 1
    /\ kb = KbIdle
    /\ ms = MsIdle
    /\ now = 0
    /\ fg = OtherWin
    /\ win32gui = TRUE
    /\ fgMatched = FALSE
    /\ queryFailed = FALSE
    /\ dropped = FALSE
    /\ raisedNow = FALSE
    /\ stopSinceCall = TRUE
    /\ InitNoReplay /\ InitShellState /\ InitNoCodec

NextRoundTrip ==
    \/ RecordReturnToFile
    \/ CliReplay
    \/ ReplayRead
    \/ ReplayLoad

SpecRoundTrip == InitRoundTrip /\ [][NextRoundTrip]_vars

\* The desktop shell with its replay side: operator clicks (start, stop,
\* play), the UI thread, the recording worker, the replay worker and the
\* replay() call it makes, or the replay() call of cli.main; the recording
\* file is missing, holds a recording of two events, or holds a mouse_click
\* record without its button.
PlayFiles ==
    {NoFile,
     [exists |-> TRUE,
      text |-> JsonDumps(<<[t |-> "key_press", dt |-> 0, data |-> [key |-> KeyAName]],
                           [t |-> "key_release", dt |-> 1, data |-> [key |-> KeyAName]]>>)],
     [exists |-> TRUE,
      text |-> JsonDumps(<<[t |-> "mouse_click", dt |-> 0,
                            data |-> [x |-> 10, y |-> 20, pressed |-> TRUE]]>>)]}

InitPlay ==
    /\ InitRecorder /\ InitNoReplay /\ InitWindow /\ InitNoCodec
    /\ target_hwnd = None /\ fg = TargetWin /\ win32gui
    /\ recording_file \in PlayFiles

NextPlay ==
    \/ OnStart
    \/ OnStopBegin
    \/ OnStopCheck
    \/ OnStopCall
    \/ OnStopEscPress
    \/ OnStopEscRelease
    \/ PromptSavePayload
    \/ RecordingFinished
    \/ WorkerCreate
    \/ WorkerCallRecord
    \/ WorkerEmit
    \/ WorkerClear
    \/ WorkerInvoke
    \/ RecordSteps
    \/ OnPlay
    \/ ReplayWorkerCall
    \/ ReplayWorkerAfter
    \/ ReplayWorkerFinally
    \/ ReplayFinished
    \/ ReplayFailed
    \/ CliReplay
    \/ ReplayRead
    \/ ReplayLoad
    \/ ReplayStart
    \/ SleepUntilTest
    \/ SleepUntilSleep
    \/ ReplayDispatch

SpecPlay == InitPlay /\ [][NextPlay]_vars

\* The desktop shell: operator clicks (start, stop) and key strokes, the UI
\* thread, the recording worker and the recorder it drives.
InitShell ==
    /\ InitRecorder /\ InitNoReplay /\ InitShellState /\ InitNoCodec
    /\ target_hwnd = None /\ fg = TargetWin /\ win32gui

NextShell ==
    \/ OnStart
    \/ OnStopBegin
    \/ OnStopCheck
    \/ OnStopCall
    \/ OnStopEscPress
    \/ OnStopEscRelease
    \/ PromptSavePayload
    \/ RecordingFinished
    \/ WorkerCreate
    \/ WorkerCallRecord
    \/ WorkerEmit
    \/ WorkerClear
    \/ WorkerInvoke
    \/ RecordSteps
    \/ KbSteps
    \/ KbDeliverSynth

SpecShell == InitShell /\ [][NextShell]_vars

\* The desktop shell once the operator has stopped touching the keyboard: the
\* clicks on start and stop, the UI thread, the recording worker, the
\* recorder, and the keyboard listener thread handling the synthetic ESC of
\* on_stop.  Every thread of the program is scheduled fairly; the operator
\* clicks are not.
UiSteps ==
    \/ OnStopCheck
    \/ OnStopCall
    \/ OnStopEscPress
    \/ OnStopEscRelease
    \/ PromptSavePayload
    \/ RecordingFinished

WorkerSteps ==
    \/ WorkerCreate
    \/ WorkerCallRecord
    \/ WorkerEmit
    \/ WorkerClear
    \/ WorkerInvoke

KbHandlerSteps ==
    \/ KbDeliverSynth
    \/ KbAccept
    \/ KbNow
    \/ KbAppend
    \/ KbEscSet

NextStop ==
    \/ OnStart
    \/ OnStopBegin
    \/ UiSteps
    \/ WorkerSteps
    \/ RecordSteps
    \/ KbHandlerSteps

SpecStop ==
    /\ InitShell
    /\ [][NextStop]_vars
    /\ WF_vars(UiSteps)
    /\ WF_vars(WorkerSteps)
    /\ WF_vars(RecordSteps)
    /\ WF_vars(KbHandlerSteps)

\* The desktop shell with its replay side, every thread of the program
\* on the replay side scheduled fairly: the replay worker and the replay()
\* call keep running, and the UI thread finishes the slot it is in and runs
\* the slots queued to it.  The event queue of the UI thread is first in,
\* first out, so a queued slot is not overtaken for ever by later clicks:
\* strong fairness.  The operator clicks and the recording side are not fair.
\* ReplayRead is enabled exactly when the replay() call is at "read" and is
\* the only step that moves the call from there, so its fairness is stated on
\* the position of the call.
QueuedSlots ==
    \/ PromptSavePayload
    \/ RecordingFinished
    \/ ReplayFinished
    \/ ReplayFailed

ReplayWorkerSteps ==
    \/ ReplayWorkerCall
    \/ ReplayWorkerAfter
    \/ ReplayWorkerFinally

ReplayReadAdvances ==
    /\ rp.pc = "read"
    /\ rp' = [rp EXCEPT !.pc = IF recording_file.exists THEN "load" ELSE "failed"]

ReplayStepsAfterRead ==
    \/ ReplayLoad
    \/ ReplayStart
    \/ SleepUntilTest
    \/ SleepUntilSleep
    \/ ReplayDispatch

SpecPlayFair ==
    /\ SpecPlay
    /\ WF_vars(UiSteps)
    /\ SF_vars(QueuedSlots)
    /\ WF_vars(ReplayWorkerSteps)
    /\ WF_rp(ReplayReadAdvances)
    /\ WF_vars(ReplayStepsAfterRead)

\* ----------------------------------------------------------------- claims
IsEscRelease(e) == e.t = "key_release" /\ e.data.key = EscName
EscReleases(seq) == {i \in 1..Len(seq) : IsEscRelease(seq[i])}
InRecord == recPc # "idle"
Returned == recPc = "idle" /\ sessions > 0

EscReleaseBegins ==
    kb.pc = "idle" /\ kb'.pc # "idle" /\ kb'.t = "key_release" /\ kb'.key = KeyEsc
EscReleaseEnds ==
    kb.pc # "idle" /\ kb.t = "key_release" /\ kb.key = KeyEsc /\ kb'.pc = "idle"

\* C1.  A release of esc, under every recorder configuration and every
\* foreground window, takes the branch that never calls the focus filter,
\* appends a key_release event for "Key.esc" with the elapsed time it read,
\* and sets the stop flag before the callback ends.
C1_EscReleaseRecordedAndStops ==
    [][ /\ EscReleaseBegins => kb'.pc = "esc_now"
        /\ EscReleaseEnds =>
              /\ stop_event'
              /\ ~kb.consulted
              /\ \E i \in 1..Len(events') :
                    events'[i] = RecordedEvent("key_release", kb.dt, [key |-> EscName])
      ]_vars

C1_Witness ==
    /\ target_hwnd = TargetWin /\ win32gui /\ fg # TargetWin
    /\ ~fgMatched /\ ~queryFailed
    /\ kb.pc = "idle"
    /\ stop_event
    /\ Len(events) = 1 /\ IsEscRelease(events[1])

\* C2 (as stated).  With a target window, the foreground window differing
\* from it at every event and no focus query failing, the sequence holds
\* nothing but esc key_release events.
C2_OnlyEscWhenNeverFocused ==
    (target_hwnd # None /\ ~fgMatched /\ ~queryFailed)
        => \A i \in 1..Len(events) : IsEscRelease(events[i])

\* C2 (amended).  The same, when the win32gui module is available: without
\* it _accept_event accepts every event and nothing is dropped.
C2_OnlyEscWhenNeverFocusedWin32 ==
    (target_hwnd # None /\ win32gui /\ ~fgMatched /\ ~queryFailed)
        => \A i \in 1..Len(events) : IsEscRelease(events[i])

C2_Witness ==
    /\ target_hwnd # None /\ win32gui /\ ~fgMatched /\ ~queryFailed
    /\ dropped
    /\ Returned
    /\ Len(payload) = 1 /\ IsEscRelease(payload[1])

\* C3.  The dt values of the sequence are non-decreasing in list order.
C3_DtNonDecreasing ==
    \A i \in 1..(Len(events) - 1) : events[i].dt <= events[i + 1].dt

ExpectedKey(name) ==
    IF name = EscName THEN KeyEsc
    ELSE [kind |-> "KeyCode", name |-> <<>>, char |-> name, vk |-> NoVk]
ExpectedAct(r) ==
    CASE r.t = "key_press" -> [op |-> "key_press", key |-> ExpectedKey(r.data.key)]
      [] r.t = "key_release" -> [op |-> "key_release", key |-> ExpectedKey(r.data.key)]
      [] r.t = "mouse_move" -> [op |-> "set_position", x |-> r.data.x, y |-> r.data.y]
      [] r.t = "mouse_click" /\ r.data.pressed ->
            [op |-> "button_press", button |-> r.data.button]
      [] r.t = "mouse_click" /\ ~r.data.pressed ->
            [op |-> "button_release", button |-> r.data.button]
      [] r.t = "mouse_scroll" -> [op |-> "scroll", dx |-> r.data.dx, dy |-> r.data.dy]

\* C4.  Replay of a well-formed file of n records emits exactly n synthetic
\* input actions, the i-th being the action of the i-th record (key press,
\* key release, cursor set, button press or release, scroll), in order; for
\* n = 0 it emits nothing and returns.
C4_ReplayEmitsEachInOrder ==
    /\ Len(emitted) <= Len(raw)
    /\ \A i \in 1..Len(emitted) : emitted[i].act = ExpectedAct(raw[i])
    /\ rp.pc \in {"su_now", "su_sleep", "dispatch"} => Len(emitted) = rp.idx - 1
    /\ rp.pc = "done" => Len(emitted) = Len(raw)
    /\ rp.pc # "failed"

C4_Witness ==
    /\ rp.pc = "done"
    /\ Len(raw) >= 2
    /\ raw[1].t = "mouse_click" /\ ~raw[1].data.pressed
    /\ raw[2].t = "key_release"
    /\ Len(emitted) = Len(raw)

TargetOf(e) == rp.start + raw[e.idx].dt

\* C5.  With the reference instant taken at the start of replay, no action
\* is emitted at a clock value below reference + dt of its event, and an
\* event whose target had passed when its turn came is emitted without any
\* sleep.
C5_NeverEarlyNeverNeedlessSleep ==
    \A i \in 1..Len(emitted) :
        /\ emitted[i].at >= TargetOf(emitted[i])
        /\ emitted[i].turnAt >= TargetOf(emitted[i]) => emitted[i].sleeps = 0

C5_Witness ==
    /\ rp.pc = "done"
    /\ Len(emitted) = 2
    /\ emitted[1].sleeps > 0
    /\ emitted[2].turnAt >= TargetOf(emitted[2])
    /\ emitted[2].sleeps = 0

\* C6 (as stated).  on_stop, invoked while a recording is in progress, never
\* emits a synthetic ESC press or release, in any interleaving.
C6_NeverSyntheticEsc ==
    /\ synth = <<>>
    /\ ui.pc \notin {"esc_press", "esc_release"}

OnStopEnds == ui.pc # "idle" /\ ui'.pc = "idle"

\* C6 (amended).  on_stop, invoked while a recording is in progress, takes
\* the fallback only after a read of _active_recorder found no recorder;
\* when both of its reads find the recorder it ends with the recorder's stop
\* flag set by request_stop() and no synthetic key emitted, and otherwise it
\* ends having emitted one synthetic ESC press and release.
C6_CooperativeStopWhenRecorderSet ==
    /\ [](ui.pc \in {"esc_press", "esc_release"} => ui.sawNone)
    /\ [][OnStopEnds =>
            IF ui.sawNone
            THEN synth' = SubSeq(synth', 1, ui.synth0) \o <<"press", "release">>
            ELSE stop_event' /\ Len(synth') = ui.synth0 /\ ui.pc = "stop_call"]_vars

C6_Witness ==
    /\ recording
    /\ activeRecorder = "set"
    /\ recPc = "poll"
    /\ ui.pc = "idle"
    /\ stop_event
    /\ EscReleases(events) = {}
    /\ kb.pc = "idle"
    /\ synth = <<>>

\* C7.  Every record() starts a fresh session: once the reset is done the
\* sequence is empty and a start instant is set, and a second record()
\* leaves its polling loop only after a stop that occurred since that call
\* began.
C7_FreshSession ==
    /\ recPc = "start_kb" => (events = <<>> /\ start_ts = now)
    /\ (sessions >= 2 /\ recPc \in {"stop_kb", "stop_ms", "snapshot"}) => stopSinceCall

\* C8.  record() is past its polling loop only with the stop flag set, and
\* once the flag is set during a call, the call returns.
C8_ReturnsOnlyAndWheneverStopped ==
    /\ [](recPc \in {"stop_kb", "stop_ms", "snapshot"} => stop_event)
    /\ [][(InRecord /\ recPc' = "idle") => stop_event]_vars
    /\ ((InRecord /\ stop_event) ~> (recPc = "idle"))

C8_Witness ==
    /\ Returned
    /\ stop_event
    /\ EscReleases(payload) = {}
    /\ Len(payload) > 0

\* C9.  In the sequence record() returns after an ESC release stopped the
\* capture, the esc key_release occurs exactly once and is the last element.
C9_EscOnceAndLast ==
    (Returned /\ EscReleases(payload) # {})
        => (EscReleases(payload) = {Len(payload)})

\* C10.  After record() has returned, the list it returned equals the
\* recorder's sequence: no callback appended while or after the snapshot.
C10_SnapshotIsFinal ==
    Returned => payload = Snapshot(events)

\* C11.  For a recorder with a target window, a handler whose focus query
\* raises goes on as it does with no filter configured: it reads the clock
\* and appends the event of its kind, key or mouse, with that elapsed time
\* and the payload the input source delivered.
C11_QueryFailureAccepts ==
    [][ /\ (kb.pc = "accept" /\ kb' # kb /\ raisedNow') =>
              kb' = [kb EXCEPT !.pc = "now", !.consulted = TRUE]
        /\ (ms.pc = "accept" /\ ms' # ms /\ raisedNow') =>
              ms' = [ms EXCEPT !.pc = "now"]
        /\ (kb.pc = "append" /\ kb' # kb) =>
              events' = Append(events, RecordedEvent(kb.t, kb.dt, [key |-> KeyToStr(kb.key)]))
        /\ (ms.pc = "append" /\ ms' # ms) =>
              events' = Append(events, RecordedEvent(ms.t, ms.dt, MouseData(ms.t)))
      ]_vars

C11_Witness ==
    /\ target_hwnd = TargetWin /\ win32gui /\ ~fgMatched
    /\ queryFailed /\ ~dropped
    /\ kb.pc = "idle" /\ ms.pc = "idle"
    /\ Len(events) = 2
    /\ events[1].t = "key_press"
    /\ events[2].t = "mouse_click"

\* C12.  Once record() has finished after it started listening, by its
\* return or by an exception raised while it waited for the stop flag,
\* stop() has been called on the keyboard listener and on the mouse listener.
C12_ListenersStoppedWhenFinished ==
    (Returned \/ recPc = "interrupted")
        => (kb_listener = "stopped" /\ ms_listener = "stopped")

C12_Witness ==
    /\ recPc = "interrupted"
    /\ ~stop_event
    /\ Len(events) > 0
    /\ kb_listener = "stopped" /\ ms_listener = "stopped"

\* C13.  When a listener could not be started, record() has failed and the
\* session's sequence is empty, at the failure and ever after.
C13_NoEventAfterAttachFailure ==
    recPc = "attach_failed" => events = <<>>

LacksRecordField(r) == ~({"t", "dt", "data"} \subseteq DOMAIN r)
RequiredPayload(t) ==
    CASE t \in {"key_press", "key_release"} -> {"key"}
      [] t = "mouse_move" -> {"x", "y"}
      [] t = "mouse_click" -> {"button", "pressed"}
      [] t = "mouse_scroll" -> {"dx", "dy"}
      [] OTHER -> {}
LacksPayloadField(r) ==
    ~LacksRecordField(r) /\ ~(RequiredPayload(r.t) \subseteq DOMAIN r.data)
ValidRecord(r) ==
    ~LacksRecordField(r) /\ r.t \in EventType /\ ~LacksPayloadField(r)
ValidBefore(k) == \A i \in 1..(k - 1) : ValidRecord(raw[i])
EmittedArePrefixOfFile ==
    \A i \in 1..Len(emitted) : emitted[i].act = ExpectedAct(raw[i])

UnknownKind(r) == ~LacksRecordField(r) /\ r.t \notin EventType

\* C15.  Replay of a file with a record of unknown kind never completes
\* normally and never goes past that record.
C15_UnknownKindFails ==
    \A k \in 1..Len(raw) :
        UnknownKind(raw[k])
            => /\ rp.pc # "done"
               /\ rp.pc \in {"su_now", "su_sleep", "dispatch"} => rp.idx <= k

\* C16.  Replay never ends by the emitter's rejection of an action: the
\* events after the rejected one are still dispatched.
C16_RejectionDoesNotAbort ==
    rp.pc # "rejected"

\* C17.  While the recording file does not exist, no replay worker is ever
\* started by on_play, the play button stays enabled, the main window stays
\* as it was (not minimized), and a replay() call, by the shell or by
\* cli.main, gets no further than the read of the file: nothing is emitted.
C17_MissingFileRejected ==
    ~recording_file.exists
        => /\ replayThread = "none"
           /\ play_btn /\ ~minimized
           /\ emitted = <<>>
           /\ rp.pc \in {"idle", "read", "failed"}

C17_Witness ==
    /\ ~recording_file.exists
    /\ playWarned
    /\ replayThread = "none" /\ play_btn /\ ~minimized
    /\ rp.pc = "failed"
    /\ emitted = <<>>

RecWorkerStarts == worker' = "create" /\ worker # "create"
ReplayWorkerStarts == replayThread' = "start" /\ replayThread # "start"
BothWorkersAlive == worker # "none" /\ replayThread \in {"start", "in_replay", "finally"}

\* C18 (as stated).  Under every sequence of start, stop and play, a worker
\* of either kind is started only when no worker of its kind is alive, and a
\* recording worker and a replay worker are never alive together.
C18_AtMostOneSession ==
    /\ [](~BothWorkersAlive)
    /\ [][ /\ RecWorkerStarts => worker = "none"
           /\ ReplayWorkerStarts => replayThread \in {"none", "dead"} ]_vars

\* C18 (amended).  Under every sequence of start, stop and play, a recording
\* worker is started only when no recording worker is alive and a replay
\* worker only when no replay worker is alive; a recording worker and a
\* replay worker can be alive together.
C18_AtMostOneWorkerOfEachKind ==
    [][ /\ RecWorkerStarts => (worker = "none" /\ ~recording)
        /\ ReplayWorkerStarts => replayThread \in {"none", "dead"} ]_vars

C18_Witness ==
    /\ BothWorkersAlive
    /\ worker = "in_record" /\ recPc = "poll"
    /\ replayThread = "in_replay" /\ rp.pc = "dispatch"
    /\ sessions = 2

IsCharKey(key) == key.kind = "KeyCode" /\ key.char # NoChar
HasMarker(name) == Len(name) >= 4 /\ SubSeq(name, 1, 4) = <<"K", "e", "y", ".">>

\* C19.  For every key the input source delivers, the name of a character
\* key is the character itself, the name of any other key carries the
\* marker "Key.", and decoding the name gives back the key.
C19_KeyNameRoundTrip ==
    /\ codec.pc \in {"name", "back"} =>
          IF IsCharKey(codec.key) THEN codec.name = codec.key.char
          ELSE HasMarker(codec.name)
    /\ codec.pc # "raised"
    /\ codec.pc = "back" => codec.back = codec.key

\* C20.  The records replay() loads from the text record(output_file) wrote
\* are the recorded events, in the same number and order, equal field for
\* field (t, dt, data and its payload fields); the parsed text is the list
\* of dicts record() returned.  Replay ends at the load only for the empty
\* sequence, and fails only when it read before the file was written.
C20_FileRoundTrip ==
    /\ (recording_file.exists /\ rp.pc \in {"load", "start", "done"}) => raw = payload
    /\ (recording_file.exists /\ rp.pc = "start") =>
          /\ Len(rp.events) = Len(events)
          /\ \A i \in 1..Len(events) :
                /\ rp.events[i].t = events[i].t
                /\ rp.events[i].dt = events[i].dt
                /\ rp.events[i].data = events[i].data
    /\ rp.pc = "done" => events = <<>>
    /\ rp.pc = "failed" => raw = <<>>

C20_Witness ==
    /\ recording_file.exists
    /\ rp.pc = "start"
    /\ Len(events) = 2
    /\ events[1].t = "key_press" /\ events[1].data.key = <<"\\">> /\ events[1].dt = 10 * MaxDt
    /\ events[2].t = "mouse_move" /\ events[2].data.x < 0
    /\ rp.events = events

\* C21: in the desktop shell, once on_stop has been invoked while a recording
\* is in progress, the recording eventually finishes: _recording becomes
\* false and the start button is enabled again, in every interleaving of the
\* UI thread and the worker thread under fair scheduling.
\* The code does not satisfy it: an on_stop that runs before the worker has
\* stored the recorder takes the ESC fallback, and a synthetic ESC emitted
\* before the keyboard listener has been started reaches no handler, so the
\* stop flag is never set and record() polls for ever (RecordPoll with the
\* flag unset leaves the state as it is: the behaviour ends stuttering in the
\* loop, in the first recording as well as in a later one).
StopInvoked == recording /\ ui.pc # "idle"
RecordingOver == ~recording /\ start_btn

C21_StopLeadsToFinished == StopInvoked ~> RecordingOver

\* C22: request_stop() changes nothing but the stop flag: it appends no
\* event and leaves the sequence, the start instant, the target window (and
\* the listeners, the call's position and its result) unchanged; with the
\* flag already set it changes no field of the recorder at all.  The
\* sequence changes only when a handler appends the event it was called
\* for or when record() clears it, so the sequence a session returns holds
\* only events captured from the operator: a session in which no ESC was
\* released returns no esc event.
\* A step of request_stop() is a step that is neither a step of record() nor
\* a step of a listener callback.
StopRequestStep == recPc' = recPc /\ sessions' = sessions /\ kb' = kb /\ ms' = ms

HandlerAppendStep ==
    \/ /\ kb.pc \in {"append", "esc_append"} /\ kb' # kb
       /\ events' = Append(events, RecordedEvent(kb.t, kb.dt, [key |-> KeyToStr(kb.key)]))
    \/ /\ ms.pc = "append" /\ ms' # ms
       /\ events' = Append(events, RecordedEvent(ms.t, ms.dt, MouseData(ms.t)))

ClearStep == recPc = "idle" /\ recPc' = "set_start" /\ events' = <<>>

C22_RequestStopOnlySetsFlag ==
    /\ [][StopRequestStep =>
            /\ stop_event'
            /\ UNCHANGED <<events, start_ts, target_hwnd, kb_listener, ms_listener,
                           payload>>]_vars
    /\ [][(StopRequestStep /\ stop_event) => UNCHANGED recorderFields]_vars
    /\ [][(events' # events) => (HandlerAppendStep \/ ClearStep)]_vars
    /\ [](Returned => /\ Len(payload) <= Len(events)
                      /\ payload = Snapshot(SubSeq(events, 1, Len(payload)))
                      /\ (EscReleases(events) = {} => EscReleases(payload) = {}))

\* A session ended by request_stop() alone has returned the MaxEvents events
\* captured from the operator, none of them an esc release.
C22_Witness ==
    /\ Returned
    /\ stopSinceCall
    /\ kb.pc = "idle" /\ ms.pc = "idle"
    /\ Len(events) = MaxEvents
    /\ EscReleases(events) = {}
    /\ payload = Snapshot(events)

\* C23: every replay worker started by on_play, whether replay() returns
\* normally or raises, leads to _replay_finished exactly once, after which
\* the play button is enabled again; a replay that raised additionally leads
\* to _replay_failed (posted before _replay_finished), and the play button
\* is never left disabled for ever.
Count(q, x) == Cardinality({i \in 1..Len(q) : q[i] = x})
Position(q, x) == CHOOSE i \in 1..Len(q) : q[i] = x
ReplayRaised == rp.pc \in {"failed", "rejected"}

C23_WorkerLeadsToReplayFinished ==
    /\ [](/\ Count(uiQueue, "_replay_finished") <= 1
          /\ Count(uiQueue, "_replay_failed") <= 1
          /\ Count(uiQueue, "_replay_finished") = 1 => (replayThread = "dead" /\ ~play_btn)
          /\ ReplayWorkerAlive(replayThread) =>
                (~play_btn /\ Count(uiQueue, "_replay_finished") = 0)
          /\ (replayThread = "dead" /\ Count(uiQueue, "_replay_finished") = 0) => play_btn
          /\ Count(uiQueue, "_replay_failed") = 1 =>
                /\ ReplayRaised
                /\ replayThread \in {"finally", "dead"}
                /\ Count(uiQueue, "_replay_finished") = 1 =>
                      Position(uiQueue, "_replay_failed")
                          < Position(uiQueue, "_replay_finished"))
    /\ [][(play_btn' /\ ~play_btn) =>
            /\ replayThread = "dead"
            /\ Head(uiQueue) = "_replay_finished"
            /\ uiQueue' = Tail(uiQueue)]_vars
    /\ [][(replayThread = "in_replay" /\ replayThread' # "in_replay") =>
            /\ ReplayRaised => uiQueue' = Append(uiQueue, "_replay_failed")
            /\ ~ReplayRaised => uiQueue' = uiQueue]_vars
    /\ (replayThread = "start") ~>
          (/\ replayThread = "dead"
           /\ play_btn
           /\ Count(uiQueue, "_replay_finished") = 0
           /\ Count(uiQueue, "_replay_failed") = 0)
    /\ (~play_btn) ~> play_btn

\* The worker's replay() raised on the record without its button, the thread
\* has ended, and the UI thread has run both _replay_failed and
\* _replay_finished: the play button is enabled again.
C23_Witness ==
    /\ replayThread = "dead"
    /\ rp.pc = "failed"
    /\ emitted = <<>>
    /\ uiQueue = <<>>
    /\ play_btn
    /\ ~minimized

====
